---- MODULE Spec2Model ----
(***************************************************************************)
(* Reward accrual and vesting of a capacity commitment (CC).               *)
(*                                                                         *)
(* The program builds one TestScenarioParameters snapshot (models.py),     *)
(* validates it once, and then evaluates pure engine functions on it       *)
(* (rewards_calculators.py), sequenced by run_cc_simulation (runner.py).   *)
(*                                                                         *)
(* Numbers.  The float fields of the snapshot (prices, revenue,            *)
(* collateral) are drawn from integer values, on which Python's float      *)
(* arithmetic is exact and float floor division equals \div.  Python's //  *)
(* floors towards minus infinity, and so does \div.  The fixed-point scale *)
(* `precision` is drawn from multiples of 100 (plus 0, which the field     *)
(* accepts), so that staking_rate * precision / 100 is a whole number.     *)
(* The reports hold the fixed-point values the functions compute; the       *)
(* value a caller reads from a returned dict is round_to_precision of it,   *)
(* a whole number of 1/10**4.                                               *)
(***************************************************************************)
EXTENDS FiniteSets, Integers, Sequences, TLC

VARIABLES
    params,   \* the fields given to the constructors, then the snapshot
    stage,    \* "raw" | "validated" | "rejected"
    result    \* outcome and value of the last call made

vars == <<params, stage, result>>

(***************************************************************************)
(* Bounds of the model                                                     *)
(***************************************************************************)
MaxEpoch == 6
MaxCU == 2

(***************************************************************************)
(* Arithmetic helpers                                                      *)
(***************************************************************************)
Min(a, b) == IF a <= b THEN a ELSE b

Max(a, b) == IF a >= b THEN a ELSE b

\* range(a, b) of Python
Range(a, b) == a .. (b - 1)

Elems(s) == {s[i] : i \in DOMAIN s}

RECURSIVE SumOver(_, _)
SumOver(f, S) ==
    IF S = {} THEN 0
    ELSE LET x == CHOOSE y \in S : TRUE
         IN f[x] + SumOver(f, S \ {x})

NoResult == [call |-> "none", outcome |-> "none"]

(***************************************************************************)
(* Inputs: the field values handed to the constructors.  Every value       *)
(* satisfies the Field(...) range of its field (models.py 7-14, 18-19,     *)
(* 24-27, 38, 53-56, 86-88), except slashed epochs, whose range is a       *)
(* validator of its own.  `defaulted` is the set of validated fields the    *)
(* caller leaves out: such a field takes its Field(default=...) and its     *)
(* @field_validator is not run on it.                                       *)
(***************************************************************************)
NoSlashing == <<>>

\* Field(default=30) of cc_end_epoch, Field(default=0) of deal_end_epoch and of
\* amount_of_cu_to_move_to_deal: the value of a field the caller leaves out
DefaultCcEndEpoch == 30

DefaultDealEndEpoch == 0

DefaultAmountOfCuToMoveToDeal == 0

NoDeal == [s |-> 0, e |-> 0, n |-> 0, price |-> 1]

Deal(s, e, n) == [s |-> s, e |-> e, n |-> n, price |-> 2]

Scenarios(cuS, startS, endS, rateS, ratioS, failS, slashS, dealS, countS, durS, precS, curS, wdS) ==
    { [ epoch_duration               |-> 86400,
        usd_collateral_per_unit      |-> 1,
        usd_target_revenue_per_epoch |-> 3,
        flt_usd_price                |-> 2,
        min_reward_pool              |-> <<0, 1>>,
        max_reward_pool              |-> <<0, 1>>,
        max_fail_ratio               |-> ratio,
        vesting_period_count         |-> count,
        vesting_period_duration      |-> dur,
        cu_amount                    |-> cu,
        cc_start_epoch               |-> start,
        cc_end_epoch                 |-> end,
        staking_rate                 |-> rate,
        cc_fail_epoch                |-> fail,
        slashed_epochs               |-> slash,
        deal_start_epoch             |-> deal.s,
        deal_end_epoch               |-> deal.e,
        amount_of_cu_to_move_to_deal |-> deal.n,
        price_per_cu_in_offer_usd    |-> deal.price,
        precision                    |-> prec,
        current_epoch                |-> cur,
        withdrawal_epoch             |-> wd,
        defaulted                    |-> {} ] :
      cu \in cuS, start \in startS, end \in endS, rate \in rateS, ratio \in ratioS,
      fail \in failS, slash \in slashS, deal \in dealS, count \in countS,
      dur \in durS, prec \in precS, cur \in curS, wd \in wdS }

\* Scenarios that exercise the engine: vesting clock, withdrawal, deals,
\* failure with an auto-filled slashing schedule.
EngineInputs ==
    Scenarios(1 .. MaxCU, {1, 2}, {MaxEpoch - 1}, {50}, {2}, {0, 3}, {NoSlashing},
              {NoDeal, Deal(2, 4, 1), Deal(2, 4, 2), Deal(3, MaxEpoch, 1),
               Deal(MaxEpoch - 1, MaxEpoch + 1, 1)},
              {1, 2}, {1, 2, 3}, {100}, 1 .. MaxEpoch, {0, 2, 4})

\* Scenarios that exercise construction: slashing schedules, failure epochs
\* and deals, valid and invalid.
SlashChoices ==
    { NoSlashing,
      (1 :> <<3>>),
      (1 :> <<4>>),
      (1 :> <<1>>),
      (2 :> <<3>>),
      (2 :> <<2, 3>>),
      (1 :> <<1>>) @@ (2 :> <<1, 2>>),
      (1 :> <<1, 5>>) @@ (2 :> <<1, 2, 5>>),
      (1 :> <<0>>) }

DealChoices ==
    { NoDeal, Deal(2, 4, 1), Deal(2, 4, 2), Deal(2, 4, MaxCU + 1),
      Deal(3, 3, 1), Deal(2, 4, 0), Deal(0, 4, 1) }

ConstructionInputs ==
    Scenarios(1 .. MaxCU, {2}, {MaxEpoch - 1}, {50}, {0, 1, 2}, 0 .. MaxEpoch, SlashChoices,
              DealChoices, {2}, {2}, {100}, {MaxEpoch}, {0, MaxEpoch + 1})

\* The fixed-point scale 0, which Field(ge=0) accepts.
ZeroPrecisionInputs ==
    Scenarios({1}, {1}, {MaxEpoch - 1}, {50}, {2}, {0}, {NoSlashing}, {NoDeal, Deal(2, 4, 1)},
              {1}, {2}, {0}, {1, 3, MaxEpoch}, {0})

\* Constructor calls that leave a validated field to its default:
\* CCDealParameters(deal_start_epoch=s, amount_of_cu_to_move_to_deal=n),
\* CCDealParameters(deal_start_epoch=s, deal_end_epoch=e) and
\* CCCreationParameters(cc_start_epoch=s)
DefaultedInputs ==
    LET supplied == Scenarios({1, MaxCU}, {2}, {MaxEpoch - 1}, {50}, {2}, {0}, {NoSlashing},
                              {NoDeal, Deal(2, 4, 1)}, {2}, {2}, {100}, {3, MaxEpoch}, {0})
    IN    { [p EXCEPT !.deal_end_epoch = DefaultDealEndEpoch,
                      !.defaulted = {"deal_end_epoch"}] : p \in supplied }
     \cup { [p EXCEPT !.amount_of_cu_to_move_to_deal = DefaultAmountOfCuToMoveToDeal,
                      !.defaulted = {"amount_of_cu_to_move_to_deal"}] : p \in supplied }
     \cup { [p EXCEPT !.cc_start_epoch = start,
                      !.cc_end_epoch = DefaultCcEndEpoch,
                      !.defaulted = {"cc_end_epoch"}] :
              p \in supplied, start \in {2, DefaultCcEndEpoch} }

\* Commitments whose supplied cc_end_epoch is not after cc_start_epoch
WindowInputs ==
    Scenarios({1}, {2}, {1, 2}, {50}, {2}, {0}, {NoSlashing}, {NoDeal},
              {2}, {2}, {100}, {MaxEpoch}, {0})

\* Staking rates 0 and 100 and those that do not divide the rewards evenly
\* (scenarios.py uses 0, 70 and 100)
SplitInputs ==
    Scenarios(1 .. MaxCU, {1}, {MaxEpoch - 1}, {0, 1, 33, 70, 99, 100}, {2}, {0, 3},
              {NoSlashing},
              {NoDeal, Deal(2, 4, 1)}, {2}, {2}, {100}, {2, MaxEpoch}, {0})

\* Commitments that fail in their first epochs, with no slashing supplied
EarlyFailureInputs ==
    Scenarios({1, MaxCU}, {1}, {MaxEpoch - 1}, {50}, {1, 2, 3}, {1, 2}, {NoSlashing}, {NoDeal},
              {2}, {2}, {100}, {MaxEpoch}, {0})

\* Commitments whose target revenue is a whole multiple of the token price
AprInputs ==
    { [p EXCEPT !.usd_target_revenue_per_epoch = 2 * p.flt_usd_price] :
        p \in Scenarios(1 .. MaxCU, {1}, {MaxEpoch - 1}, {0, 50, 70, 100}, {2}, {0},
                        {NoSlashing}, {NoDeal}, {2}, {2}, {100}, {1, 3, MaxEpoch}, {0}) }

RawInputs ==
    EngineInputs \cup ConstructionInputs \cup ZeroPrecisionInputs \cup DefaultedInputs
        \cup WindowInputs \cup SplitInputs \cup EarlyFailureInputs \cup AprInputs

(***************************************************************************)
(* models.py: construction and validation of the snapshot                  *)
(***************************************************************************)
\* CCCreationParameters.end_after_start
CreationError(p) ==
    IF "cc_end_epoch" \notin p.defaulted /\ p.cc_end_epoch <= p.cc_start_epoch
    THEN "cc_end_epoch must be greater than cc_start_epoch"
    ELSE ""

\* CCFailingParams.validate_slashed_epochs
FailingError(p) ==
    IF \E cu \in DOMAIN p.slashed_epochs :
          ~(\A epoch \in Elems(p.slashed_epochs[cu]) : epoch >= 1)
    THEN "All slashed epochs must be positive integers"
    ELSE ""

\* CCDealParameters without validate_cu_amount
DealErrorNoAmountCheck(p) ==
    IF /\ "deal_end_epoch" \notin p.defaulted
       /\ p.deal_start_epoch /= 0 /\ p.deal_end_epoch <= p.deal_start_epoch
    THEN "deal_end_epoch must be greater than deal_start_epoch when deal_start_epoch is not 0"
    ELSE ""

\* CCDealParameters.end_after_start, then CCDealParameters.validate_cu_amount
DealError(p) ==
    IF /\ "deal_end_epoch" \notin p.defaulted
       /\ p.deal_start_epoch /= 0 /\ p.deal_end_epoch <= p.deal_start_epoch
    THEN "deal_end_epoch must be greater than deal_start_epoch when deal_start_epoch is not 0"
    ELSE IF /\ "amount_of_cu_to_move_to_deal" \notin p.defaulted
            /\ p.amount_of_cu_to_move_to_deal = 0 /\ p.deal_start_epoch /= 0
    THEN "amount_of_cu_to_move_to_deal can be 0 when there's no deal (deal_start_epoch is 0)"
    ELSE ""

\* The window in which validate_all forbids slashing a CU that is in the deal
SlashedWhileInDeal(p, cu, epoch) ==
    /\ cu <= p.amount_of_cu_to_move_to_deal
    /\ p.deal_start_epoch <= epoch /\ epoch <= p.deal_end_epoch
    /\ p.deal_start_epoch /= 0
    /\ p.deal_end_epoch /= 0
    /\ p.amount_of_cu_to_move_to_deal /= 0

\* validate_all, the loop over slashed_epochs.items()
DealSlashError(p) ==
    IF \E cu \in DOMAIN p.slashed_epochs :
          \E epoch \in Elems(p.slashed_epochs[cu]) : SlashedWhileInDeal(p, cu, epoch)
    THEN "CU cannot be slashed while in a deal"
    ELSE ""

\* max_fail_amount of fill_slashed_epochs
MaxFailAmount(p) == p.max_fail_ratio * p.cu_amount

\* _fill_slashed_epochs_for_failure with range(cc_fail_epoch - epochs_to_slash,
\* cc_fail_epoch): the window shifted one epoch down
FillSlashedEpochsShifted(cc_fail_epoch, max_fail_amount, total_cu_amount) ==
    LET epochs_to_slash == max_fail_amount \div total_cu_amount
        remaining_slashes == max_fail_amount % total_cu_amount
        slashed == [i \in 1 .. epochs_to_slash |-> cc_fail_epoch - epochs_to_slash + i - 1]
    IN [cu \in 1 .. total_cu_amount |->
            IF cu <= remaining_slashes
            THEN <<cc_fail_epoch - epochs_to_slash - 1>> \o slashed
            ELSE slashed]

\* _fill_slashed_epochs_for_failure: the dict it fills, CU -> list of epochs
FillSlashedEpochsForFailure(cc_fail_epoch, max_fail_amount, total_cu_amount) ==
    LET epochs_to_slash == max_fail_amount \div total_cu_amount
        remaining_slashes == max_fail_amount % total_cu_amount
        slashed == [i \in 1 .. epochs_to_slash |-> cc_fail_epoch - epochs_to_slash + i]
    IN [cu \in 1 .. total_cu_amount |->
            IF cu <= remaining_slashes
            THEN <<cc_fail_epoch - epochs_to_slash>> \o slashed
            ELSE slashed]

\* the condition under which fill_slashed_epochs fills the schedule
AutoFills(p) == p.cc_fail_epoch /= 0 /\ DOMAIN p.slashed_epochs = {}

\* fill_slashed_epochs: the schedule it leaves in failing_params
FillSlashedEpochs(p) ==
    IF AutoFills(p)
    THEN FillSlashedEpochsForFailure(p.cc_fail_epoch, MaxFailAmount(p), p.cu_amount)
    ELSE p.slashed_epochs

\* total_slashed of fill_slashed_epochs
TotalSlashed(slashed_epochs) ==
    SumOver([cu \in DOMAIN slashed_epochs |-> Len(slashed_epochs[cu])],
            DOMAIN slashed_epochs)

\* _validate_slashed_epochs without the branch for a set cc_fail_epoch
ValidateSlashedEpochsNoFailBranch(cc_fail_epoch, total_slashed, max_fail_amount) ==
    IF cc_fail_epoch = 0 /\ total_slashed > max_fail_amount
    THEN "Total slashed epochs is greater than max_fail_amount, but cc_fail_epoch is not set"
    ELSE ""

\* _validate_slashed_epochs
ValidateSlashedEpochs(cc_fail_epoch, total_slashed, max_fail_amount) ==
    IF cc_fail_epoch /= 0
    THEN IF total_slashed < max_fail_amount
         THEN "Total slashed epochs must be at least max_fail_amount when cc_fail_epoch is set"
         ELSE ""
    ELSE IF total_slashed > max_fail_amount
         THEN "Total slashed epochs is greater than max_fail_amount, but cc_fail_epoch is not set"
         ELSE ""

\* update_reward_pools: the pool value as the fraction <<numerator, denominator>>
UpdateRewardPools(p) ==
    IF p.min_reward_pool[1] = 0 /\ p.max_reward_pool[1] = 0
    THEN LET reward_pool_value ==
                 <<p.usd_target_revenue_per_epoch * p.cu_amount, p.flt_usd_price>>
         IN [p EXCEPT !.min_reward_pool = reward_pool_value,
                      !.max_reward_pool = reward_pool_value]
    ELSE p

\* validate_all: the first error it raises, "" when it returns the snapshot
ValidateAll(p) ==
    IF p.amount_of_cu_to_move_to_deal > p.cu_amount
    THEN "amount_of_cu_to_move_to_deal cannot exceed total cu_amount"
    ELSE IF DealSlashError(p) /= ""
    THEN DealSlashError(p)
    ELSE IF ValidateSlashedEpochs(p.cc_fail_epoch, TotalSlashed(FillSlashedEpochs(p)),
                                  MaxFailAmount(p)) /= ""
    THEN ValidateSlashedEpochs(p.cc_fail_epoch, TotalSlashed(FillSlashedEpochs(p)),
                               MaxFailAmount(p))
    ELSE IF p.cc_fail_epoch /= 0 /\ p.cc_fail_epoch > p.cc_end_epoch
    THEN "cc_fail_epoch cannot be after cc_end_epoch"
    ELSE IF p.cc_fail_epoch /= 0 /\ p.cc_fail_epoch < p.cc_start_epoch
    THEN "cc_fail_epoch cannot be before cc_start_epoch"
    ELSE IF p.withdrawal_epoch /= 0 /\ p.withdrawal_epoch > p.current_epoch
    THEN "withdrawal_epoch cannot be after current_epoch"
    ELSE ""

\* The constructors in the order the callers run them (runner.py 129-150):
\* the sub-models' field validators, then validate_all
ConstructionError(p) ==
    IF CreationError(p) /= "" THEN CreationError(p)
    ELSE IF FailingError(p) /= "" THEN FailingError(p)
    ELSE IF DealError(p) /= "" THEN DealError(p)
    ELSE ValidateAll(p)

\* The snapshot validate_all returns: schedule filled, reward pools updated
Snapshot(p) == UpdateRewardPools([p EXCEPT !.slashed_epochs = FillSlashedEpochs(p)])

\* TestScenarioParameters(...): the snapshot, or the ValueError
Construct ==
    /\ stage = "raw"
    /\ IF ConstructionError(params) = ""
       THEN /\ stage' = "validated"
            /\ params' = Snapshot(params)
            /\ result' = [call |-> "TestScenarioParameters", outcome |-> "ok",
                          autofilled |-> AutoFills(params)]
       ELSE /\ stage' = "rejected"
            /\ params' = params
            /\ result' = [call |-> "TestScenarioParameters", outcome |-> "ValueError",
                          message |-> ConstructionError(params),
                          autofilled |-> FALSE]

(***************************************************************************)
(* utils.py: round_to_precision                                            *)
(***************************************************************************)
\* precision=10**7, the default of round_to_precision
DefaultRoundingPrecision == 10000000

\* decimal_places=4: a rounded value is a whole number of 1/10**4
DecimalPlacesScale == 10000

\* round(value / precision, decimal_places), in units of 1/10**4.  Halfway
\* between two such units the float quotient decides which one round() gives:
\* both are possible results.
RoundToPrecision(value, precision) ==
    LET scaled == value * DecimalPlacesScale
        lower == scaled \div precision
        rest == scaled % precision
    IN IF 2 * rest < precision THEN {lower}
       ELSE IF 2 * rest > precision THEN {lower + 1}
       ELSE {lower, lower + 1}

(***************************************************************************)
(* rewards_calculators.py: period reward accrual                           *)
(***************************************************************************)
\* flt_reward_per_epoch of calculate_period_rewards_for_cc
FltRewardPerEpoch(p, precision) ==
    (p.usd_target_revenue_per_epoch * precision) \div p.flt_usd_price

\* "Check if it's a deal epoch"
IsDealEpoch(p, epoch) ==
    /\ p.deal_start_epoch /= 0 /\ p.amount_of_cu_to_move_to_deal /= 0
    /\ p.deal_start_epoch <= epoch /\ epoch < p.deal_end_epoch

\* active_cus of one epoch
ActiveCus(p, epoch) ==
    IF IsDealEpoch(p, epoch)
    THEN p.cu_amount - p.amount_of_cu_to_move_to_deal
    ELSE p.cu_amount

\* slashed_cus of one epoch; slashed_epochs.get(cu, []) is empty for a missing CU
SlashedCus(p, epoch) ==
    Cardinality({cu \in 1 .. p.cu_amount :
                    /\ cu \in DOMAIN p.slashed_epochs
                    /\ epoch \in Elems(p.slashed_epochs[cu])})

\* epoch_rewards of one epoch
EpochRewards(p, epoch, precision) ==
    (ActiveCus(p, epoch) - SlashedCus(p, epoch)) * FltRewardPerEpoch(p, precision)

\* calculate_period_rewards_for_cc: (period_rewards, slashed_info, deal_epochs);
\* epoch_rewards keeps the loop's per-epoch value
CalculatePeriodRewardsForCc(start_epoch, end_epoch, p, precision) ==
    LET epochs == Range(start_epoch, end_epoch)
        rewards == [epoch \in epochs |-> EpochRewards(p, epoch, precision)]
    IN [ period_rewards |-> SumOver(rewards, epochs),
         slashed_info   |-> [epoch \in {e \in epochs : SlashedCus(p, e) > 0} |->
                                SlashedCus(p, epoch)],
         deal_epochs    |-> {e \in epochs : IsDealEpoch(p, e)},
         epoch_rewards  |-> rewards ]

(***************************************************************************)
(* rewards_calculators.py: CC vesting                                      *)
(***************************************************************************)
\* last_epoch_to_count_rewards of calculate_vesting and calculate_average_apr
LastEpochToCountRewards(p) ==
    LET last == Min(p.cc_end_epoch, p.current_epoch)
    IN IF p.cc_fail_epoch > 0 THEN Min(last, p.cc_fail_epoch) ELSE last

FirstVestingPeriodStart(p) ==
    p.cc_start_epoch - (p.cc_start_epoch % p.vesting_period_duration)

LastVestingPeriodStart(p) ==
    LastEpochToCountRewards(p)
        - (LastEpochToCountRewards(p) % p.vesting_period_duration)

\* range(first_vesting_period_start, last_vesting_period_start, duration): the
\* window that starts at last_vesting_period_start left out
PeriodStartsWithoutLast(p) ==
    { s \in FirstVestingPeriodStart(p) .. (LastVestingPeriodStart(p) - 1) :
        (s - FirstVestingPeriodStart(p)) % p.vesting_period_duration = 0 }

\* range(first_vesting_period_start, last_vesting_period_start + 1, duration)
PeriodStarts(p) ==
    { s \in FirstVestingPeriodStart(p) .. LastVestingPeriodStart(p) :
        (s - FirstVestingPeriodStart(p)) % p.vesting_period_duration = 0 }

\* the unlocked fraction without the min(..., precision) cap
UnlockedFractionUncapped(ref_epoch, period_end, p) ==
    LET periods_since_end ==
            Max(0, ((ref_epoch - period_end) \div p.vesting_period_duration) + 1)
    IN (periods_since_end * p.precision) \div p.vesting_period_count

\* min(periods_since_end * precision // vesting_period_count, precision), with
\* periods_since_end = max(0, (ref_epoch - period_end) // duration + 1)
UnlockedFraction(ref_epoch, period_end, p) ==
    LET periods_since_end ==
            Max(0, ((ref_epoch - period_end) \div p.vesting_period_duration) + 1)
    IN Min((periods_since_end * p.precision) \div p.vesting_period_count, p.precision)

\* One pass of the loop over the vesting periods: a row of the printed table
VestingPeriod(p, period_start) ==
    LET period_end == period_start + p.vesting_period_duration
        reward_start == Max(period_start, p.cc_start_epoch)
        reward_end == Min(period_end, LastEpochToCountRewards(p))
        period_rewards ==
            CalculatePeriodRewardsForCc(reward_start, reward_end, p, p.precision).period_rewards
        unlocked_fraction_current == UnlockedFraction(p.current_epoch, period_end, p)
        period_unlocked_rewards ==
            (period_rewards * unlocked_fraction_current) \div p.precision
        period_withdrawn ==
            IF p.withdrawal_epoch > 0 /\ p.withdrawal_epoch >= period_start
            THEN (UnlockedFraction(p.withdrawal_epoch, period_end, p) * period_rewards)
                     \div p.precision
            ELSE 0
    IN [ period_start            |-> period_start,
         period_end              |-> period_end,
         reward_start            |-> reward_start,
         reward_end              |-> reward_end,
         period_rewards          |-> period_rewards,
         unlocked_fraction       |-> unlocked_fraction_current,
         period_unlocked_rewards |-> period_unlocked_rewards,
         period_withdrawn        |-> period_withdrawn ]

\* The periods the loop does not skip (reward_start < reward_end)
VisitedPeriods(p) ==
    { s \in PeriodStarts(p) :
        Max(s, p.cc_start_epoch)
            < Min(s + p.vesting_period_duration, LastEpochToCountRewards(p)) }

\* the provider's share taken as what the stakers leave
ProviderRewardsAsRemainder(total_rewards_earned, p) ==
    total_rewards_earned
        - (total_rewards_earned * p.staking_rate * p.precision) \div (100 * p.precision)

\* provider_rewards of calculate_vesting
ProviderRewards(total_rewards_earned, p) ==
    (total_rewards_earned * (100 - p.staking_rate) * p.precision) \div (100 * p.precision)

\* staker_rewards of calculate_vesting
StakerRewards(total_rewards_earned, p) ==
    (total_rewards_earned * p.staking_rate * p.precision) \div (100 * p.precision)

\* calculate_vesting: the fixed-point values it reports (before the
\* round_to_precision of the returned dict) and the rows it prints
CalculateVesting(p) ==
    IF p.precision = 0
    THEN [call |-> "calculate_vesting", outcome |-> "ZeroDivisionError"]
    ELSE
    LET periods == [s \in VisitedPeriods(p) |-> VestingPeriod(p, s)]
        total_rewards_earned ==
            SumOver([s \in VisitedPeriods(p) |-> periods[s].period_rewards],
                    VisitedPeriods(p))
        total_withdrawn ==
            SumOver([s \in VisitedPeriods(p) |-> periods[s].period_withdrawn],
                    VisitedPeriods(p))
        unlocked_rewards ==
            SumOver([s \in VisitedPeriods(p) |->
                        periods[s].period_unlocked_rewards - periods[s].period_withdrawn],
                    VisitedPeriods(p))
        rewards_in_vesting ==
            Max(0, total_rewards_earned - unlocked_rewards - total_withdrawn)
    IN [ call    |-> "calculate_vesting",
         outcome |-> "ok",
         report  |-> [ total_earned     |-> total_rewards_earned,
                       total_withdrawn  |-> total_withdrawn,
                       to_claim         |-> unlocked_rewards,
                       in_vesting       |-> rewards_in_vesting,
                       provider_rewards |-> ProviderRewards(total_rewards_earned, p),
                       staker_rewards   |-> StakerRewards(total_rewards_earned, p) ],
         periods |-> periods ]

(***************************************************************************)
(* rewards_calculators.py: deal vesting                                    *)
(***************************************************************************)
\* last_epoch_to_count_rewards of calculate_deal_vesting
DealLastEpochToCountRewards(p) ==
    LET last == Min(p.deal_end_epoch, p.current_epoch)
    IN IF p.cc_fail_epoch > 0 THEN Min(last, p.cc_fail_epoch) ELSE last

\* the vesting horizon of deal rewards, in epochs
DealVestingEpochs(p) == p.vesting_period_count * p.vesting_period_duration

\* min(periods_since_end * precision // horizon, precision), with
\* periods_since_end = max(0, ref_epoch - work_epoch)
DealUnlockedFraction(ref_epoch, work_epoch, p) ==
    Min((Max(0, ref_epoch - work_epoch) * p.precision) \div DealVestingEpochs(p),
        p.precision)

\* period_rewards_flt: the epoch's deal reward scaled by staking_rate
DealPeriodRewardsFlt(p) ==
    LET reward_per_epoch_usd == p.price_per_cu_in_offer_usd * p.precision
        flt_price == p.flt_usd_price * p.precision
        period_rewards_usd == reward_per_epoch_usd * p.amount_of_cu_to_move_to_deal
    IN (period_rewards_usd * ((p.staking_rate * p.precision) \div 100)) \div flt_price

\* One pass of the loop over the deal's epochs: a row of the printed table
DealEpoch(p, work_epoch) ==
    LET period_rewards_flt == DealPeriodRewardsFlt(p)
        unlocked_fraction == DealUnlockedFraction(p.current_epoch, work_epoch, p)
        period_unlocked_rewards == (period_rewards_flt * unlocked_fraction) \div p.precision
        period_withdrawn ==
            IF p.withdrawal_epoch > 0 /\ p.withdrawal_epoch > work_epoch
            THEN (DealUnlockedFraction(p.withdrawal_epoch, work_epoch, p) * period_rewards_flt)
                     \div p.precision
            ELSE 0
    IN [ work_epoch              |-> work_epoch,
         period_rewards_flt      |-> period_rewards_flt,
         unlocked_fraction       |-> unlocked_fraction,
         period_unlocked_rewards |-> period_unlocked_rewards,
         period_withdrawn        |-> period_withdrawn ]

\* calculate_deal_vesting: the fixed-point values it reports (before the
\* round_to_precision of the returned dict) and the rows it prints
CalculateDealVesting(p) ==
    IF p.precision = 0
    THEN [call |-> "calculate_deal_vesting", outcome |-> "ZeroDivisionError"]
    ELSE
    LET last_epoch_to_count_rewards == DealLastEpochToCountRewards(p)
        total_epochs_rewarded == last_epoch_to_count_rewards - p.deal_start_epoch
        total_rewards_earned_usd ==
            total_epochs_rewarded * p.price_per_cu_in_offer_usd
                * p.amount_of_cu_to_move_to_deal * p.precision
        total_rewards_earned_flt == total_rewards_earned_usd \div p.flt_usd_price
        work_epochs == Range(p.deal_start_epoch, last_epoch_to_count_rewards)
        epochs == [e \in work_epochs |-> DealEpoch(p, e)]
        total_withdrawn ==
            SumOver([e \in work_epochs |-> epochs[e].period_withdrawn], work_epochs)
        unlocked_rewards ==
            SumOver([e \in work_epochs |->
                        epochs[e].period_unlocked_rewards - epochs[e].period_withdrawn],
                    work_epochs)
        rewards_in_vesting ==
            Max(0, total_rewards_earned_flt - unlocked_rewards - total_withdrawn)
    IN [ call    |-> "calculate_deal_vesting",
         outcome |-> "ok",
         report  |-> [ total_earned_usd |-> total_rewards_earned_usd,
                       total_earned_flt |-> total_rewards_earned_flt,
                       total_withdrawn  |-> total_withdrawn,
                       to_claim         |-> unlocked_rewards,
                       in_vesting       |-> rewards_in_vesting ],
         epochs  |-> epochs ]

(***************************************************************************)
(* rewards_calculators.py: APR                                             *)
(***************************************************************************)
CollateralFlt(p) ==
    (p.cu_amount * p.usd_collateral_per_unit * p.precision) \div p.flt_usd_price

EpochsInYear(p) == (365 * 24 * 60 * 60) \div p.epoch_duration

\* calculate_expected_apr: the fixed-point values behind the returned dict
CalculateExpectedApr(p) ==
    IF CollateralFlt(p) = 0
    THEN [call |-> "calculate_expected_apr", outcome |-> "ZeroDivisionError"]
    ELSE
    LET target_rewards_flt_per_epoch ==
            (p.usd_target_revenue_per_epoch * p.precision) \div p.flt_usd_price
        year_revenue_flt == target_rewards_flt_per_epoch * EpochsInYear(p) * p.cu_amount
        expected_apr == (year_revenue_flt * p.precision) \div CollateralFlt(p)
    IN [ call    |-> "calculate_expected_apr",
         outcome |-> "ok",
         report  |-> [ expected_apr_total  |-> expected_apr,
                       staker_expected_apr |-> (expected_apr * p.staking_rate) \div 100 ] ]

\* total_epochs_rewarded of calculate_average_apr
TotalEpochsRewarded(p) == LastEpochToCountRewards(p) - p.cc_start_epoch

\* calculate_average_apr: the fixed-point values behind the returned dict; the
\* divisions by total_epochs_rewarded and collateral_flt are unguarded.  The
\* total handed in is a number of tokens, here the fraction
\* <<numerator, denominator>>
CalculateAverageApr(total_reward, p) ==
    IF TotalEpochsRewarded(p) = 0 \/ CollateralFlt(p) = 0
    THEN [call |-> "calculate_average_apr", outcome |-> "ZeroDivisionError",
          total_epochs_rewarded |-> TotalEpochsRewarded(p)]
    ELSE
    LET avg_reward ==
            (total_reward[1] * p.precision) \div (total_reward[2] * TotalEpochsRewarded(p))
        avg_reward_yearly == avg_reward * EpochsInYear(p)
        avg_apr == (avg_reward_yearly * p.precision) \div CollateralFlt(p)
    IN [ call    |-> "calculate_average_apr",
         outcome |-> "ok",
         total_epochs_rewarded |-> TotalEpochsRewarded(p),
         report  |-> [ avg_apr_total  |-> avg_apr,
                       staker_avg_apr |-> (avg_apr * p.staking_rate) \div 100 ] ]

(***************************************************************************)
(* runner.py: run_cc_simulation                                            *)
(***************************************************************************)
\* The condition under which run_cc_simulation calls calculate_deal_vesting
RunsDealVesting(p) ==
    /\ p.amount_of_cu_to_move_to_deal > 0 /\ p.deal_start_epoch > 0
    /\ p.deal_start_epoch >= Min(p.current_epoch, p.cc_fail_epoch)

\* deal_rewards when calculate_deal_vesting is not called
NoDealRewards ==
    [total_earned_usd |-> 0, total_earned_flt |-> 0, unlocked_flt |-> 0, in_vesting_flt |-> 0]

\* The keys of cc_rewards the summary prints
SummaryCcKeys == {"total_earned", "unlocked", "in_vesting", "provider_rewards", "staker_rewards"}

\* The keys of deal_rewards the summary prints
SummaryDealKeys == {"total_earned_usd", "total_earned_flt", "unlocked_flt", "in_vesting_flt"}

\* The condition under which the summary prints the deal lines
PrintsDealSummary(p) ==
    /\ p.amount_of_cu_to_move_to_deal > 0 /\ p.deal_start_epoch > 0
    /\ p.deal_start_epoch <= p.current_epoch

\* run_cc_simulation: the steps in order; the first one that raises ends the run
RunCcSimulation(p) ==
    LET expected == CalculateExpectedApr(p)
        cc == CalculateVesting(p)
        deal_called == RunsDealVesting(p)
        deal == IF deal_called THEN CalculateDealVesting(p)
                ELSE [outcome |-> "ok", report |-> NoDealRewards]
        \* the reports carry the fixed-point totals; only whether the call raises
        \* depends on the total handed to calculate_average_apr
        average == CalculateAverageApr(<<0, 1>>, p)
        raised(outcome, by) ==
            [call |-> "run_cc_simulation", outcome |-> outcome, raised_by |-> by,
             deal_called |-> (deal_called /\ expected.outcome = "ok" /\ cc.outcome = "ok")]
    IN IF expected.outcome /= "ok" THEN raised(expected.outcome, "calculate_expected_apr")
       ELSE IF cc.outcome /= "ok" THEN raised(cc.outcome, "calculate_vesting")
       ELSE IF deal.outcome /= "ok" THEN raised(deal.outcome, "calculate_deal_vesting")
       ELSE IF average.outcome /= "ok" THEN raised(average.outcome, "calculate_average_apr")
       ELSE IF ~(SummaryCcKeys \subseteq DOMAIN cc.report)
       THEN raised("KeyError", "run_cc_simulation")
       ELSE IF PrintsDealSummary(p) /\ ~(SummaryDealKeys \subseteq DOMAIN deal.report)
       THEN raised("KeyError", "run_cc_simulation")
       ELSE [call |-> "run_cc_simulation", outcome |-> "ok", raised_by |-> "",
             deal_called |-> deal_called,
             cc_rewards |-> cc.report, deal_rewards |-> deal.report]

(***************************************************************************)
(* The engine calls, each on the validated snapshot                        *)
(***************************************************************************)
\* Totals handed to calculate_average_apr: whole numbers of tokens
TotalRewards == {<<0, 1>>, <<12, 1>>}

\* cc_rewards["total_earned"]: the total calculate_vesting returns, which is
\* round_to_precision(total_rewards_earned) with the default precision
ReportedTotalEarned(p) ==
    IF CalculateVesting(p).outcome = "ok"
    THEN { <<rounded, DecimalPlacesScale>> :
             rounded \in RoundToPrecision(CalculateVesting(p).report.total_earned,
                                          DefaultRoundingPrecision) }
    ELSE {}

\* calculate_period_rewards_for_cc reading the schedule with
\* slashed_epochs.setdefault(cu, []), which adds the missing CUs to the snapshot
CallPeriodRewardsForCcSetDefault ==
    /\ stage = "validated"
    /\ result' = [call |-> "calculate_period_rewards_for_cc", outcome |-> "ok",
                  start_epoch |-> params.cc_start_epoch,
                  end_epoch |-> LastEpochToCountRewards(params),
                  value |-> CalculatePeriodRewardsForCc(params.cc_start_epoch,
                                                        LastEpochToCountRewards(params),
                                                        params, params.precision)]
    /\ params' = [params EXCEPT !.slashed_epochs =
                      [cu \in (DOMAIN @) \cup (1 .. params.cu_amount) |->
                          IF cu \in DOMAIN @ THEN @[cu] ELSE <<>>]]
    /\ UNCHANGED stage

CallPeriodRewardsForCc ==
    /\ stage = "validated"
    /\ result' = [call |-> "calculate_period_rewards_for_cc", outcome |-> "ok",
                  start_epoch |-> params.cc_start_epoch,
                  end_epoch |-> LastEpochToCountRewards(params),
                  value |-> CalculatePeriodRewardsForCc(params.cc_start_epoch,
                                                        LastEpochToCountRewards(params),
                                                        params, params.precision)]
    /\ UNCHANGED <<params, stage>>

CallVesting ==
    /\ stage = "validated"
    /\ result' = CalculateVesting(params)
    /\ UNCHANGED <<params, stage>>

CallDealVesting ==
    /\ stage = "validated"
    /\ result' = CalculateDealVesting(params)
    /\ UNCHANGED <<params, stage>>

CallExpectedApr ==
    /\ stage = "validated"
    /\ result' = CalculateExpectedApr(params)
    /\ UNCHANGED <<params, stage>>

CallAverageApr ==
    /\ stage = "validated"
    /\ \E total_reward \in TotalRewards \cup ReportedTotalEarned(params) :
          result' = CalculateAverageApr(total_reward, params)
                        @@ [total_reward |-> total_reward]
    /\ UNCHANGED <<params, stage>>

CallRunCcSimulation ==
    /\ stage = "validated"
    /\ result' = RunCcSimulation(params)
    /\ UNCHANGED <<params, stage>>

Init ==
    /\ params \in RawInputs
    /\ stage = "raw"
    /\ result = NoResult

Next ==
    \/ Construct
    \/ CallPeriodRewardsForCc
    \/ CallVesting
    \/ CallDealVesting
    \/ CallExpectedApr
    \/ CallAverageApr
    \/ CallRunCcSimulation

Spec == Init /\ [][Next]_vars

(***************************************************************************)
(* The same program on the smaller families of inputs                      *)
(***************************************************************************)
CallInputs ==
    ZeroPrecisionInputs \cup DefaultedInputs \cup SplitInputs \cup EarlyFailureInputs
        \cup AprInputs

InitCalls ==
    /\ params \in CallInputs
    /\ stage = "raw"
    /\ result = NoResult

SpecCalls == InitCalls /\ [][Next]_vars

(***************************************************************************)
(* The vesting clock: the same commitment evaluated at each later epoch.   *)
(* A snapshot whose current_epoch is one later is again a valid snapshot   *)
(* (withdrawal_epoch <= current_epoch is kept), and calculate_vesting is   *)
(* run on it.                                                              *)
(***************************************************************************)
MaxClock == 12

ClockInputs ==
    Scenarios(1 .. MaxCU, {1, 2}, {MaxEpoch - 1}, {50}, {2}, {0, 3}, {NoSlashing},
              {NoDeal, Deal(2, 4, 1)}, {1, 2, 3}, {1, 2, 3}, {100}, {1}, {0, 1})

InitClock ==
    /\ \E raw \in ClockInputs :
          /\ ConstructionError(raw) = ""
          /\ params = Snapshot(raw)
    /\ stage = "validated"
    /\ result = CalculateVesting(params)

Tick ==
    /\ stage = "validated"
    /\ params.current_epoch < MaxClock
    /\ params' = [params EXCEPT !.current_epoch = @ + 1]
    /\ result' = CalculateVesting(params')
    /\ UNCHANGED stage

NextClock ==
    \/ Tick

SpecClock == InitClock /\ [][NextClock]_vars

(***************************************************************************)
(* Properties                                                              *)
(***************************************************************************)
Validated == stage = "validated"

Returned(call) == Validated /\ result.call = call /\ result.outcome = "ok"

Constructed == Validated /\ result.call = "TestScenarioParameters"

\* earned = withdrawn + to_claim + in_vesting, to within `precision`
\* fixed-point units (one whole token), the widest reading of the tolerance
Conserved(earned, report, precision) ==
    LET diff == earned - (report.total_withdrawn + report.to_claim + report.in_vesting)
    IN -precision <= diff /\ diff <= precision

\* C1: the CC report of calculate_vesting and the deal report of
\* calculate_deal_vesting each satisfy total_earned = total_withdrawn + to_claim
\* + in_vesting, within one precision unit, on the unrounded fixed-point values.
C1_Conservation ==
    /\ Returned("calculate_vesting") =>
          Conserved(result.report.total_earned, result.report, params.precision)
    /\ Returned("calculate_deal_vesting") =>
          Conserved(result.report.total_earned_flt, result.report, params.precision)

\* C2: in every epoch accrued by calculate_period_rewards_for_cc on a validated
\* snapshot the epoch reward is active_cu * rate - slashed_cu * rate and is never
\* below zero: slashed_cu <= active_cu.
C2_EpochRewardNeverNegative ==
    Returned("calculate_period_rewards_for_cc") =>
        \A epoch \in DOMAIN result.value.epoch_rewards :
            /\ result.value.epoch_rewards[epoch] =
                  ActiveCus(params, epoch) * FltRewardPerEpoch(params, params.precision)
                  - SlashedCus(params, epoch) * FltRewardPerEpoch(params, params.precision)
            /\ result.value.epoch_rewards[epoch] >= 0
            /\ SlashedCus(params, epoch) <= ActiveCus(params, epoch)

\* C3: in every constructed snapshot, with the schedule supplied or auto-filled,
\* no CU with index <= amount_of_cu_to_move_to_deal has a slashed epoch inside
\* [deal_start_epoch, deal_end_epoch] while a deal is active.
C3_NoDealCuSlashedInDealWindow ==
    Validated =>
        \A cu \in DOMAIN params.slashed_epochs :
            \A epoch \in Elems(params.slashed_epochs[cu]) :
                ~SlashedWhileInDeal(params, cu, epoch)

BudgetMessages ==
    { "Total slashed epochs must be at least max_fail_amount when cc_fail_epoch is set",
      "Total slashed epochs is greater than max_fail_amount, but cc_fail_epoch is not set" }

RejectedForBudget ==
    /\ stage = "rejected"
    /\ result.message \in BudgetMessages

\* C4 as stated: auto-fill gives exactly M slashed epoch-units; in every other
\* case construction succeeds only if the total does not exceed M, and the
\* budget rule rejects only totals above M.
C4_BudgetNeverExceeded ==
    /\ (Constructed /\ result.autofilled) =>
          TotalSlashed(params.slashed_epochs) = MaxFailAmount(params)
    /\ (Constructed /\ ~result.autofilled) =>
          TotalSlashed(params.slashed_epochs) <= MaxFailAmount(params)
    /\ RejectedForBudget =>
          TotalSlashed(params.slashed_epochs) > MaxFailAmount(params)

\* C4 as amended: auto-fill gives exactly M slashed epoch-units; with
\* cc_fail_epoch = 0 construction succeeds only if the total does not exceed M;
\* with cc_fail_epoch set and slashing supplied it succeeds only if the total is
\* at least M; the budget rule rejects exactly the other totals.
C4_SlashBudgetRule ==
    /\ (Constructed /\ result.autofilled) =>
          TotalSlashed(params.slashed_epochs) = MaxFailAmount(params)
    /\ (Validated /\ params.cc_fail_epoch = 0) =>
          TotalSlashed(params.slashed_epochs) <= MaxFailAmount(params)
    /\ (Validated /\ params.cc_fail_epoch /= 0) =>
          TotalSlashed(params.slashed_epochs) >= MaxFailAmount(params)
    /\ RejectedForBudget =>
          IF params.cc_fail_epoch = 0
          THEN TotalSlashed(params.slashed_epochs) > MaxFailAmount(params)
          ELSE TotalSlashed(params.slashed_epochs) < MaxFailAmount(params)

\* a failing commitment constructed with a supplied schedule above the budget
C4_Witness ==
    /\ Constructed /\ ~result.autofilled
    /\ params.cc_fail_epoch /= 0
    /\ TotalSlashed(params.slashed_epochs) > MaxFailAmount(params)

\* the schedule the auto-fill is to produce for budget M on `cu_amount` CUs
FilledAsSpecified(F, M, cu_amount, slashed_epochs) ==
    LET base == M \div cu_amount
        remainder == M % cu_amount
        epochs(cu) == ((F - base + 1) .. F) \cup (IF cu <= remainder THEN {F - base} ELSE {})
    IN /\ DOMAIN slashed_epochs = 1 .. cu_amount
       /\ \A cu \in 1 .. cu_amount :
             /\ Elems(slashed_epochs[cu]) = epochs(cu)
             /\ Len(slashed_epochs[cu]) = Cardinality(epochs(cu))
       /\ TotalSlashed(slashed_epochs) = M

\* C5: auto-fill exactness.  With cc_fail_epoch = F > 0 and no slashing supplied,
\* every CU of 1..cu_amount is slashed in exactly F-base+1..F, the first
\* `remainder` CUs also in F-base, and the slashed epoch-units sum to M.  The
\* snapshot's M is max_fail_ratio * cu_amount; the helper is checked for every
\* budget up to that M plus cu_amount as well, where the remainder is not 0.
C5_AutoFillExact ==
    (Constructed /\ result.autofilled) =>
        /\ FilledAsSpecified(params.cc_fail_epoch, MaxFailAmount(params),
                             params.cu_amount, params.slashed_epochs)
        /\ \A M \in 0 .. (MaxFailAmount(params) + params.cu_amount) :
              FilledAsSpecified(params.cc_fail_epoch, M, params.cu_amount,
                  FillSlashedEpochsForFailure(params.cc_fail_epoch, M, params.cu_amount))

\* an auto-filled snapshot of more than one CU, each slashed in two epochs
C5_Witness ==
    /\ Constructed /\ result.autofilled
    /\ params.cu_amount > 1
    /\ \A cu \in 1 .. params.cu_amount : Len(params.slashed_epochs[cu]) = 2

\* the fraction of every window is in [0, precision], and is precision once
\* current_epoch - window_end >= vesting_period_count * vesting_period_duration
C6_InRangeAndFull ==
    Returned("calculate_vesting") =>
        \A s \in DOMAIN result.periods :
            /\ result.periods[s].unlocked_fraction >= 0
            /\ result.periods[s].unlocked_fraction <= params.precision
            /\ (params.current_epoch - result.periods[s].period_end
                   >= params.vesting_period_count * params.vesting_period_duration)
                => result.periods[s].unlocked_fraction = params.precision

\* from one epoch to the next no window's fraction decreases
C6_Step ==
    (Returned("calculate_vesting") /\ result'.call = "calculate_vesting"
        /\ result'.outcome = "ok") =>
        \A s \in (DOMAIN result.periods) \cap (DOMAIN result'.periods) :
            result'.periods[s].unlocked_fraction >= result.periods[s].unlocked_fraction

\* C6: monotonic unlock.  As current_epoch advances one epoch at a time, the
\* unlocked_fraction calculate_vesting computes for a fixed window never
\* decreases, stays within [0, precision], and is exactly precision whenever
\* current_epoch - window_end >= vesting_period_count * vesting_period_duration.
C6_MonotonicUnlock == [](C6_InRangeAndFull) /\ [][C6_Step]_vars

\* a window that vests over several periods and has reached full unlock
C6_Witness ==
    /\ Returned("calculate_vesting")
    /\ params.vesting_period_count > 1
    /\ \E s \in DOMAIN result.periods :
          /\ params.current_epoch - result.periods[s].period_end
                >= params.vesting_period_count * params.vesting_period_duration
          /\ result.periods[s].unlocked_fraction = params.precision
          /\ result.periods[s].period_rewards > 0

\* C7: the withdrawn amount never exceeds the unlocked amount, per window in
\* calculate_vesting and per deal epoch in calculate_deal_vesting.
C7_WithdrawnNeverExceedsUnlocked ==
    /\ Returned("calculate_vesting") =>
          \A s \in DOMAIN result.periods :
              result.periods[s].period_withdrawn <= result.periods[s].period_unlocked_rewards
    /\ Returned("calculate_deal_vesting") =>
          \A e \in DOMAIN result.epochs :
              result.epochs[e].period_withdrawn <= result.epochs[e].period_unlocked_rewards

\* the deal exists, as validate_all tests it
DealExists(p) ==
    p.deal_start_epoch /= 0 /\ p.deal_end_epoch /= 0 /\ p.amount_of_cu_to_move_to_deal /= 0

\* C8: deal carve-out.  The active CU count of an accrued epoch is cu_amount -
\* amount_of_cu_to_move_to_deal exactly when a deal exists and the epoch lies in
\* the deal window, and cu_amount outside it; the deal epochs returned are the
\* accrued epochs inside the window; and that window is the one in which the
\* validator forbids slashing a deal CU.
C8_SameDealWindow ==
    Returned("calculate_period_rewards_for_cc") =>
        \A epoch \in Range(result.start_epoch, result.end_epoch) :
            /\ (epoch \in result.value.deal_epochs) <=>
                  (DealExists(params) /\ params.deal_start_epoch <= epoch
                      /\ epoch < params.deal_end_epoch)
            /\ ActiveCus(params, epoch) =
                  IF epoch \in result.value.deal_epochs
                  THEN params.cu_amount - params.amount_of_cu_to_move_to_deal
                  ELSE params.cu_amount
            /\ \A cu \in 1 .. params.amount_of_cu_to_move_to_deal :
                  SlashedWhileInDeal(params, cu, epoch) <=>
                      (epoch \in result.value.deal_epochs)

\* C9: calculate_average_apr with epochs_rewarded = 0 raises an explicit "no
\* eligible epochs" condition instead of dividing by zero, and never divides by
\* a non-positive epochs_rewarded.
C9_NoEligibleEpochsRaised ==
    (Validated /\ result.call = "calculate_average_apr") =>
        /\ result.total_epochs_rewarded = 0 => result.outcome = "NoEligibleEpochs"
        /\ result.total_epochs_rewarded <= 0 =>
              result.outcome \notin {"ok", "ZeroDivisionError"}

\* C10: for every validated scenario with last_countable > cc_start_epoch,
\* run_cc_simulation completes without raising and returns the combined report
\* {cc_rewards, deal_rewards}.
C10_SimulationCompletes ==
    (Validated /\ result.call = "run_cc_simulation"
        /\ LastEpochToCountRewards(params) > params.cc_start_epoch) =>
        /\ result.outcome = "ok"
        /\ {"cc_rewards", "deal_rewards"} \subseteq DOMAIN result

AmountMessage ==
    "amount_of_cu_to_move_to_deal can be 0 when there's no deal (deal_start_epoch is 0)"

\* C11 as stated: a snapshot is constructed only if
\* amount_of_cu_to_move_to_deal is 0 exactly when deal_start_epoch is 0.
C11_ZeroCuIffNoDeal ==
    Validated =>
        (params.amount_of_cu_to_move_to_deal = 0 <=> params.deal_start_epoch = 0)

\* C11 as amended: a supplied amount_of_cu_to_move_to_deal of 0 is accepted only
\* when deal_start_epoch is 0, and validate_cu_amount rejects nothing else; a
\* non-zero amount with deal_start_epoch = 0 is not rejected for it.
C11_ZeroCuOnlyWithoutDeal ==
    /\ (Validated /\ "amount_of_cu_to_move_to_deal" \notin params.defaulted
           /\ params.amount_of_cu_to_move_to_deal = 0) =>
          params.deal_start_epoch = 0
    /\ (stage = "rejected" /\ result.message = AmountMessage) =>
          (params.amount_of_cu_to_move_to_deal = 0 /\ params.deal_start_epoch /= 0)
    /\ (stage = "rejected" /\ params.deal_start_epoch = 0) =>
          result.message \notin
              { AmountMessage,
                "deal_end_epoch must be greater than deal_start_epoch when deal_start_epoch is not 0" }

\* a snapshot constructed with CUs to move and no deal, as runner.py builds it
C11_Witness ==
    /\ Constructed
    /\ params.deal_start_epoch = 0
    /\ params.amount_of_cu_to_move_to_deal > 0
    /\ "amount_of_cu_to_move_to_deal" \notin params.defaulted

\* the cross-field invariants of a snapshot
CrossFieldInvariants(p) ==
    /\ p.cc_end_epoch > p.cc_start_epoch
    /\ p.deal_start_epoch /= 0 => p.deal_end_epoch > p.deal_start_epoch
    /\ p.amount_of_cu_to_move_to_deal <= p.cu_amount
    /\ p.cc_fail_epoch = 0
          \/ (p.cc_start_epoch <= p.cc_fail_epoch /\ p.cc_fail_epoch <= p.cc_end_epoch)
    /\ p.withdrawal_epoch <= p.current_epoch

\* C12: every constructed snapshot satisfies cc_end_epoch > cc_start_epoch,
\* deal_end_epoch > deal_start_epoch whenever deal_start_epoch /= 0,
\* amount_of_cu_to_move_to_deal <= cu_amount, cc_fail_epoch = 0 or within
\* [cc_start_epoch, cc_end_epoch], and withdrawal_epoch <= current_epoch; an
\* input violating one of them is rejected, and no engine call runs on it.
C12_CrossFieldInvariants ==
    /\ Validated => CrossFieldInvariants(params)
    /\ (stage /= "raw" /\ ~CrossFieldInvariants(params)) =>
          (stage = "rejected" /\ result.call = "TestScenarioParameters")

\* C13: the final CC split.  provider_rewards = floor(total_earned * (100 -
\* staking_rate) / 100) and staker_rewards = floor(total_earned * staking_rate /
\* 100); staking_rate = 50 gives equal shares, 0 gives the stakers nothing and
\* 100 gives the provider nothing.
C13_FinalSplit ==
    Returned("calculate_vesting") =>
        LET report == result.report
            rate == params.staking_rate
        IN /\ report.provider_rewards = (report.total_earned * (100 - rate)) \div 100
           /\ report.staker_rewards = (report.total_earned * rate) \div 100
           /\ rate = 50 => report.provider_rewards = report.staker_rewards
           /\ rate = 0 => report.staker_rewards = 0
           /\ rate = 100 => report.provider_rewards = 0

\* rewards that the staking rate does not divide evenly: both shares are floored
C13_Witness ==
    /\ Returned("calculate_vesting")
    /\ result.report.total_earned > 0
    /\ (result.report.total_earned * params.staking_rate) % 100 /= 0
    /\ result.report.provider_rewards + result.report.staker_rewards
          < result.report.total_earned

\* C14: the total_earned_flt of calculate_deal_vesting is the sum, over the
\* epochs of [deal_start_epoch, min(deal_end_epoch, current_epoch, cc_fail_epoch
\* if set)), of the epoch's deal reward scaled by staking_rate/100: the total and
\* the per-epoch rewards use the same scaling.
C14_DealTotalIsSumOfEpochRewards ==
    Returned("calculate_deal_vesting") =>
        LET last == IF params.cc_fail_epoch > 0
                    THEN Min(Min(params.deal_end_epoch, params.current_epoch),
                             params.cc_fail_epoch)
                    ELSE Min(params.deal_end_epoch, params.current_epoch)
            epochs == Range(params.deal_start_epoch, last)
        IN /\ DOMAIN result.epochs = epochs
           /\ result.report.total_earned_flt =
                 SumOver([e \in epochs |-> result.epochs[e].period_rewards_flt], epochs)

\* the reports the engine call named `call` can return on the snapshot p
EngineReports(call, p) ==
    CASE call = "calculate_period_rewards_for_cc" ->
           { [call |-> "calculate_period_rewards_for_cc", outcome |-> "ok",
              start_epoch |-> p.cc_start_epoch, end_epoch |-> LastEpochToCountRewards(p),
              value |-> CalculatePeriodRewardsForCc(p.cc_start_epoch,
                                                    LastEpochToCountRewards(p),
                                                    p, p.precision)] }
      [] call = "calculate_vesting" -> { CalculateVesting(p) }
      [] call = "calculate_deal_vesting" -> { CalculateDealVesting(p) }
      [] call = "calculate_expected_apr" -> { CalculateExpectedApr(p) }
      [] call = "calculate_average_apr" ->
           { CalculateAverageApr(total_reward, p) @@ [total_reward |-> total_reward] :
               total_reward \in TotalRewards \cup ReportedTotalEarned(p) }
      [] call = "run_cc_simulation" -> { RunCcSimulation(p) }
      [] OTHER -> {}

\* one engine call on the validated snapshot: the snapshot is left as it was,
\* the report is the one the call gives on the snapshot as constructed, and a
\* call repeated with the same arguments repeats its report
C15_Step ==
    Validated =>
        /\ params' = params
        /\ stage' = stage
        /\ result' \in EngineReports(result'.call, params)
        /\ (result'.call = result.call /\ result.call /= "calculate_average_apr") =>
              result' = result

\* C15: every engine call leaves every field of the validated snapshot
\* unchanged, so a sequence of engine calls on one snapshot returns the reports
\* the same calls return on fresh copies of it.
C15_EngineCallsLeaveSnapshot == [][C15_Step]_vars

\* run_cc_simulation has made its four engine calls in a row on a snapshot
\* whose slashing schedule was filled at construction
C15_Witness ==
    /\ Validated
    /\ result.call = "run_cc_simulation"
    /\ result.raised_by = "run_cc_simulation"
    /\ result.deal_called
    /\ params.cc_fail_epoch /= 0
    /\ DOMAIN params.slashed_epochs = 1 .. params.cu_amount

\* C16: with last_countable = min(cc_end_epoch, current_epoch, cc_fail_epoch if
\* set), the effective ranges of the windows calculate_vesting visits are
\* pairwise disjoint and their union is [cc_start_epoch, last_countable), so
\* total_earned is calculate_period_rewards_for_cc(cc_start_epoch,
\* last_countable), and is 0 when last_countable <= cc_start_epoch.
C16_WindowsPartitionTheRange ==
    Returned("calculate_vesting") =>
        LET last_countable ==
                IF params.cc_fail_epoch > 0
                THEN Min(Min(params.cc_end_epoch, params.current_epoch), params.cc_fail_epoch)
                ELSE Min(params.cc_end_epoch, params.current_epoch)
            effective(s) == Range(result.periods[s].reward_start, result.periods[s].reward_end)
            windows == DOMAIN result.periods
        IN /\ \A s, t \in windows : s /= t => effective(s) \cap effective(t) = {}
           /\ UNION { effective(s) : s \in windows }
                 = Range(params.cc_start_epoch, last_countable)
           /\ result.report.total_earned =
                 CalculatePeriodRewardsForCc(params.cc_start_epoch, last_countable,
                                             params, params.precision).period_rewards
           /\ last_countable <= params.cc_start_epoch => result.report.total_earned = 0

\* several windows, the first cut by cc_start_epoch and the last by last_countable
C16_Witness ==
    /\ Returned("calculate_vesting")
    /\ Cardinality(DOMAIN result.periods) >= 2
    /\ \E s \in DOMAIN result.periods :
          result.periods[s].reward_start > result.periods[s].period_start
    /\ \E s \in DOMAIN result.periods :
          result.periods[s].reward_end < result.periods[s].period_end
    /\ result.report.total_earned > 0

\* the deal is set and has started, before the failure when there is one
DealSetAndStarted(p) ==
    /\ p.amount_of_cu_to_move_to_deal > 0 /\ p.deal_start_epoch > 0
    /\ p.deal_start_epoch <= p.current_epoch
    /\ p.cc_fail_epoch > 0 => p.deal_start_epoch < p.cc_fail_epoch

\* C17: run_cc_simulation calls calculate_deal_vesting exactly when a deal is
\* set (amount_of_cu_to_move_to_deal > 0 and deal_start_epoch > 0) and has
\* started (deal_start_epoch <= current_epoch, and before cc_fail_epoch when
\* set); otherwise calculate_deal_vesting is not called.
C17_DealVestingCalledIffStarted ==
    (Validated /\ result.call = "run_cc_simulation"
        /\ result.raised_by \notin {"calculate_expected_apr", "calculate_vesting"}) =>
        (result.deal_called <=> DealSetAndStarted(params))

\* C18: in every constructed snapshot every epoch listed in slashed_epochs is
\* >= 1, the epochs produced by auto-fill included.
C18_SlashedEpochsPositive ==
    Validated =>
        \A cu \in DOMAIN params.slashed_epochs :
            \A epoch \in Elems(params.slashed_epochs[cu]) : epoch >= 1

\* C19: for every validated scenario every amount of the CC report and of the
\* deal report is non-negative, also when current_epoch is before
\* cc_start_epoch or before deal_start_epoch.
C19_ReportsNonNegative ==
    /\ Returned("calculate_vesting") =>
          \A key \in {"total_earned", "total_withdrawn", "to_claim", "in_vesting",
                       "provider_rewards", "staker_rewards"} :
              result.report[key] >= 0
    /\ Returned("calculate_deal_vesting") =>
          \A key \in {"total_earned_usd", "total_earned_flt", "total_withdrawn",
                       "to_claim", "in_vesting"} :
              result.report[key] >= 0

\* C20: for a validated scenario with no slashing, no deal, last_countable >
\* cc_start_epoch and usd_target_revenue_per_epoch a whole multiple of
\* flt_usd_price, the total APR calculate_average_apr returns for the CC
\* total_earned of calculate_vesting equals the total APR of
\* calculate_expected_apr, and the staker APR of each is floor(total_apr *
\* staking_rate / 100).
C20_AverageAprEqualsExpected ==
    (/\ Returned("calculate_average_apr")
     /\ result.total_reward \in ReportedTotalEarned(params)
     /\ TotalSlashed(params.slashed_epochs) = 0
     /\ params.deal_start_epoch = 0 /\ params.amount_of_cu_to_move_to_deal = 0
     /\ LastEpochToCountRewards(params) > params.cc_start_epoch
     /\ params.usd_target_revenue_per_epoch % params.flt_usd_price = 0) =>
        LET expected == CalculateExpectedApr(params)
        IN /\ expected.outcome = "ok"
           /\ result.report.avg_apr_total = expected.report.expected_apr_total
           /\ result.report.staker_avg_apr =
                 (result.report.avg_apr_total * params.staking_rate) \div 100
           /\ expected.report.staker_expected_apr =
                 (expected.report.expected_apr_total * params.staking_rate) \div 100

====
